---- MODULE Spec2Model ----
(***************************************************************************)
(* A model of the spaced-repetition engine of the word-learning bot:       *)
(* the SM-2 update functions (internal/spaced_repetition/sm2.go and its    *)
(* earlier revision), the due-word selection, the quality-response handler *)
(* of the bot with its progress store, and the reminder schedulers.        *)
(*                                                                         *)
(* Easiness factors are kept in hundredths (2.5 is 250), dates in whole    *)
(* days.                                                                   *)
(***************************************************************************)
EXTENDS Integers, Sequences, FiniteSets, TLC

VARIABLES
    \* ---- the SM-2 update functions applied to one progress record
    progress,     \* the models.UserProgress record handed to Process
    before,       \* the same record as it was before the last call
    op,           \* the last call: "init", "Process", "Process011", "ComputeNextInterval",
                  \* "ProcessOutOfRange", "Process011OutOfRange"
    quality,      \* the quality argument of the last call
    computed,     \* the triple returned by the last ComputeNextInterval
    now,          \* time.Now(), in days
    steps,        \* number of calls made so far
    revision,     \* which revision of sm2.go is running: "sm2.go" or "part_011"
    \* ---- the selection of due words
    userProgress, \* the progress records of one user (argument / table rows)
    limit,        \* the limit argument, the user's WordsPerDay
    result,       \* the sequence returned by the last selection
    selOp,        \* the last selection made, "init" before any
    \* ---- the quality-response handler of the bot and the progress table
    store,        \* table user_progress of one user: word -> row (ID 0: no row)
    store0,       \* the table as it was at the start
    pc,           \* position of each handler goroutine
    args,         \* word and quality each handler was called with
    local,        \* the progress record each handler holds
    err,          \* whether the store write of a handler returned an error
    \* ---- the reminder scheduler
    learners,     \* table users with the due count of each: id -> record
    manualCheck,  \* the last RunManualCheck: its learner, its notifier
                  \* calls and whether it returned an error
    env,          \* NOTIFICATION_START_HOUR and NOTIFICATION_END_HOUR as
                  \* strconv.Atoi reads them, -1 when unset or not a number
    variant,      \* the scheduler running: "window", "hourly", "ladder" or "check"
    hour,         \* time.Now().Hour() of the current tick
    tickPc,       \* "idle", "loop" (walking the users of a tick), "done",
                  \* "panicked" (the tick was left by a panic)
    queue,        \* users of the current tick still to be processed
    delivered,    \* SendReminders calls made in the current tick
    storeFailed,  \* users whose due query failed in the current tick
    ticks,        \* number of ticks fired so far
    \* ---- the topic repetitions (the fixed ladder)
    repetitionRows, \* table repetitions of one user: row i has id i
    stamp,        \* CURRENT_TIMESTAMP of the database, in seconds
    events,       \* number of completion callbacks handled so far
    lastEvent,    \* what the last handleTopicComplete did
    \* ---- the learning session of bot.go (words are shown in groups)
    session,      \* learningSessions[userID], exists FALSE when there is none
    shown,        \* the word group the last showNextWordGroup displayed
    \* ---- SM2.CalculateQuality applied to one answer
    accuracy,     \* the accuracy argument, in tenths
    timeSpent,    \* the timeSpent argument, in seconds
    baseQuality,  \* the value returned, -1 before the call
    \* ---- the job scheduler the reminder check is registered with
    clock,        \* the hour of the day of the next firing
    firings,      \* number of times the hourly job has fired
    jobs,         \* the runs of checkAndSendReminders, one goroutine each
    calls,        \* SendReminders calls made, each with the firing it is of
    life,         \* "running", "stopping" (Stop waits for the runs),
                  \* "stopped" (Stop has returned), "exited" (main returned)
    \* ---- the learning session of the earlier bot (one word at a time)
    learning,     \* learningSessions[userID], exists FALSE when there is none
    sessionWords, \* the words handleLearnCommand started the session with
    cards,        \* the words showWord has displayed, in order
    sessionPc,    \* position of each goroutine in the session part of
                  \* handleQualityResponse
    copy,         \* the session value each goroutine holds
    responses,    \* number of quality callbacks taken up so far
    crashed       \* the runtime has ended the process (fatal error)

smVars == <<progress, before, op, quality, computed, now, steps, revision>>
dueVars == <<userProgress, limit, result, selOp>>
botVars == <<store, store0, pc, args, local, err>>

schedVars ==
    <<learners, manualCheck, env, variant, hour, tickPc, queue, delivered,
      storeFailed, ticks>>

ladderVars == <<repetitionRows, stamp, events, lastEvent>>

showVars == <<session, shown>>

qualityVars == <<accuracy, timeSpent, baseQuality>>

cronVars == <<clock, firings, jobs, calls, life>>

sessionVars ==
    <<learning, sessionWords, cards, sessionPc, copy, responses, crashed>>

vars ==
    <<smVars, dueVars, botVars, schedVars, ladderVars, showVars, qualityVars,
      cronVars, sessionVars>>

\* what an action of one component leaves alone
otherThanSM ==
    <<dueVars, botVars, schedVars, ladderVars, showVars, qualityVars, cronVars, sessionVars>>
otherThanDue ==
    <<progress, before, op, quality, computed, steps, botVars, schedVars, ladderVars,
      showVars, qualityVars, cronVars, sessionVars>>
otherThanBot ==
    <<progress, before, op, quality, computed, steps, revision, dueVars, schedVars,
      ladderVars, showVars, qualityVars, cronVars, sessionVars>>
otherThanSched ==
    <<smVars, dueVars, botVars, ladderVars, showVars, qualityVars, cronVars, sessionVars>>
otherThanLadder ==
    <<progress, before, op, quality, computed, steps, revision, dueVars, botVars,
      schedVars, showVars, qualityVars, cronVars, sessionVars>>
otherThanShow ==
    <<progress, before, op, quality, computed, steps, revision, dueVars,
      pc, args, local, err, schedVars, ladderVars, qualityVars, cronVars, sessionVars>>
otherThanQuality ==
    <<smVars, dueVars, botVars, schedVars, ladderVars, showVars, cronVars,
      sessionVars>>
otherThanCron ==
    <<smVars, dueVars, botVars, ladderVars, showVars, qualityVars, sessionVars>>
otherThanSession ==
    <<smVars, dueVars, botVars, schedVars, ladderVars, showVars, qualityVars,
      cronVars>>

(***************************************************************************)
(* Bounds of the model                                                     *)
(***************************************************************************)
MaxSteps == 2          \* calls of an update function in one behaviour
MaxDay == 1            \* days the clock may advance
MaxWords == 3          \* progress records of one user
MaxLimit == 2          \* largest limit / WordsPerDay
MaxHandlers == 2       \* handler goroutines running at the same time
MaxLearners == 2       \* rows of table users
MaxTicks == 2          \* ticks of the scheduler in one behaviour
MaxEvents == 4         \* completion callbacks handled in one behaviour
MaxStamp == 3          \* seconds the database clock may advance to
MaxResponses == 3      \* quality callbacks taken up in one behaviour
MaxFirings == 3        \* firings of the hourly job in one behaviour
MaxJobs == 2           \* runs of the reminder check alive at the same time

(***************************************************************************)
(* Dates.  sm2.go keeps dates as strings written with time.RFC3339 and     *)
(* reads them back with time.Parse(time.RFC3339, ...), which fails on a    *)
(* timestamp written in any other layout.  A stored string is modelled by  *)
(* its layout and the day it denotes.                                      *)
(***************************************************************************)
FormatRFC3339(t) == [layout |-> "RFC3339", day |-> t]

ParseRFC3339(s) ==
    IF s.layout = "RFC3339"
    THEN [err |-> FALSE, t |-> s.day]
    ELSE [err |-> TRUE, t |-> 0]

AddDate(t, days) == t + days

(***************************************************************************)
(* SM2 configuration                                                       *)
(***************************************************************************)
\* sm2.go NewSM2
NewSM2 ==
    [PassThreshold |-> 3,
     MaxInterval |-> 365,
     InitialIntervals |-> <<0, 1, 2, 3, 7, 10, 15, 20, 30>>]

\* earlier revision of sm2.go
NewSM2_011 ==
    [MinEasinessFactor |-> 130,
     MaxInterval |-> 365,
     InitialIntervals |-> <<1, 3, 7, 10, 15, 30>>]

QualityCorrectDifficult == 3

\* InitialIntervals[i] with Go's 0-based index
At(s, i) == s[i + 1]

\* int(float64(interval) * ef): truncation, ef in hundredths
TruncMul(interval, ef) == (interval * ef) \div 100

(***************************************************************************)
(* The easiness update  ef + (0.1 - (5-q)*(0.08 + (5-q)*0.02)), clamped    *)
(***************************************************************************)
\* a plausible slip: the clamp to 1.3 is forgotten
NewEFNoClamp(ef, q) == ef + (10 - (5 - q) * (8 + (5 - q) * 2))

NewEF(ef, q) ==
    LET newEF == ef + (10 - (5 - q) * (8 + (5 - q) * 2))
    IN IF newEF < 130 THEN 130 ELSE newEF

NewEF011(sm, ef, q) ==
    LET newEF == ef + (10 - (5 - q) * (8 + (5 - q) * 2))
    IN IF newEF < sm.MinEasinessFactor THEN sm.MinEasinessFactor ELSE newEF

(***************************************************************************)
(* SM2.Process, sm2.go                                                     *)
(***************************************************************************)
\* a plausible slip: a failed review forgets to reset the interval
ProcessKeepsInterval(sm, p, q, t) ==
    LET ef == NewEF(p.EasinessFactor, q)
        next == IF p.Repetitions = 0
                THEN At(sm.InitialIntervals, 0)
                ELSE IF p.Repetitions < Len(sm.InitialIntervals)
                     THEN At(sm.InitialIntervals, p.Repetitions)
                     ELSE TruncMul(p.Interval, ef)
        capped == IF next > sm.MaxInterval THEN sm.MaxInterval ELSE next
        interval == IF q >= QualityCorrectDifficult THEN capped ELSE p.Interval
    IN [p EXCEPT
          !.LastReviewDate = FormatRFC3339(t),
          !.LastQuality = q,
          !.EasinessFactor = ef,
          !.ConsecutiveRight =
              IF q >= QualityCorrectDifficult THEN p.ConsecutiveRight + 1 ELSE 0,
          !.Interval = interval,
          !.Repetitions =
              IF q >= QualityCorrectDifficult THEN p.Repetitions + 1 ELSE p.Repetitions,
          !.NextReviewDate = FormatRFC3339(AddDate(t, interval))]

Process(sm, p, q, t) ==
    LET ef == NewEF(p.EasinessFactor, q)
        next == IF p.Repetitions = 0
                THEN At(sm.InitialIntervals, 0)
                ELSE IF p.Repetitions < Len(sm.InitialIntervals)
                     THEN At(sm.InitialIntervals, p.Repetitions)
                     ELSE TruncMul(p.Interval, ef)
        capped == IF next > sm.MaxInterval THEN sm.MaxInterval ELSE next
        interval == IF q >= QualityCorrectDifficult THEN capped ELSE 1
    IN [p EXCEPT
          !.LastReviewDate = FormatRFC3339(t),
          !.LastQuality = q,
          !.EasinessFactor = ef,
          !.ConsecutiveRight =
              IF q >= QualityCorrectDifficult THEN p.ConsecutiveRight + 1 ELSE 0,
          !.Interval = interval,
          !.Repetitions =
              IF q >= QualityCorrectDifficult THEN p.Repetitions + 1 ELSE p.Repetitions,
          !.NextReviewDate = FormatRFC3339(AddDate(t, interval))]

(***************************************************************************)
(* SM2.Process, earlier revision (dates are time.Time values)              *)
(***************************************************************************)
Process011(sm, p, q, t) ==
    LET ef == NewEF011(sm, p.EasinessFactor, q)
        next == IF p.Repetitions = 0
                THEN At(sm.InitialIntervals, 0)
                ELSE IF p.Repetitions < Len(sm.InitialIntervals)
                     THEN At(sm.InitialIntervals, p.Repetitions)
                     ELSE TruncMul(p.Interval, ef)
        capped == IF next > sm.MaxInterval THEN sm.MaxInterval ELSE next
        interval == IF q >= QualityCorrectDifficult THEN capped ELSE 1
    IN [p EXCEPT
          !.LastReviewDate = t,
          !.LastQuality = q,
          !.EasinessFactor = ef,
          !.ConsecutiveRight =
              IF q >= QualityCorrectDifficult THEN p.ConsecutiveRight + 1 ELSE 0,
          !.Interval = interval,
          !.Repetitions =
              IF q >= QualityCorrectDifficult THEN p.Repetitions + 1 ELSE p.Repetitions,
          !.NextReviewDate = AddDate(t, interval)]

(***************************************************************************)
(* SM2.ComputeNextInterval, sm2.go                                         *)
(***************************************************************************)
ComputeNextInterval(sm2, q, repetitions, currentEF, currentInterval) ==
    LET newEF == NewEF(currentEF, q)
        newRepetitions == IF q >= sm2.PassThreshold THEN repetitions + 1 ELSE 0
        formula == TruncMul(currentInterval, newEF)
        newInterval ==
            IF q >= sm2.PassThreshold
            THEN IF newRepetitions < Len(sm2.InitialIntervals)
                 THEN At(sm2.InitialIntervals, newRepetitions)
                 ELSE IF formula > sm2.MaxInterval THEN sm2.MaxInterval ELSE formula
            ELSE 1
    IN [newInterval |-> newInterval, newEF |-> newEF, newRepetitions |-> newRepetitions]

(***************************************************************************)
(* The update functions applied to bounded inputs                          *)
(***************************************************************************)
Qualities == 0..5
\* values of quality outside 0..5: QualityResponse is an int, and
\* handleCallbackQuery passes on whatever strconv.Atoi read from the callback
OutOfRangeQualities == {-1, 6, 9}
InitEF == {130, 136, 250, 280}
InitInterval == {0, 1, 6, 30, 200}
InitRepetitions == {0, 1, 5, 6, 8, 9, 10}
InitConsecutiveRight == {0, 2}

\* the selection of due words is not running
\* CalculateQuality is not called
IdleQuality ==
    /\ accuracy = 0
    /\ timeSpent = 0
    /\ baseQuality = -1

\* no entry in learningSessions of the earlier bot
NoLearning == [exists |-> FALSE]

IdleSession ==
    /\ learning = NoLearning
    /\ sessionWords = << >>
    /\ cards = << >>
    /\ sessionPc = << >>
    /\ copy = << >>
    /\ responses = 0
    /\ crashed = FALSE

\* no job scheduler is started
IdleCron ==
    /\ clock = 0
    /\ firings = 0
    /\ jobs = << >>
    /\ calls = {}
    /\ life = "idle"

IdleDue ==
    /\ userProgress = << >>
    /\ limit = 0
    /\ result = << >>
    /\ selOp = "init"

\* no handler of the bot is running
IdleBot ==
    /\ store = << >>
    /\ store0 = << >>
    /\ pc = << >>
    /\ args = << >>
    /\ local = << >>
    /\ err = << >>

\* the scheduler is not running
NoCheck == [userID |-> 0, calls |-> << >>, failed |-> "", returned |-> FALSE]

IdleSched ==
    /\ learners = << >>
    /\ manualCheck = NoCheck
    /\ env = [NOTIFICATION_START_HOUR |-> -1, NOTIFICATION_END_HOUR |-> -1]
    /\ variant = "window"
    /\ hour = 0
    /\ tickPc = "idle"
    /\ queue = << >>
    /\ delivered = << >>
    /\ storeFailed = {}
    /\ ticks = 0

\* no completion callback is handled
NoEvent == [repID |-> 0, outcome |-> "none", picked |-> 0, number |-> 0,
            created |-> 0, at |-> 0]

IdleLadder ==
    /\ repetitionRows = << >>
    /\ stamp = 0
    /\ events = 0
    /\ lastEvent = NoEvent

\* no entry in learningSessions
NoSession == [exists |-> FALSE]

IdleShow ==
    /\ session = NoSession
    /\ shown = << >>

NoResult == [newInterval |-> -1, newEF |-> -1, newRepetitions |-> -1]

\* a date as the running revision stores it
StoredDate(rev, t) == IF rev = "sm2.go" THEN FormatRFC3339(t) ELSE t

InitSM2 ==
    /\ revision \in {"sm2.go", "part_011"}
    /\ IdleQuality
    /\ IdleCron
    /\ IdleSession
    /\ now = 0
    /\ \E ef \in InitEF, iv \in InitInterval, r \in InitRepetitions,
          c \in InitConsecutiveRight :
          \* an interval of 0 is only stored for an item passed at most once
          /\ (iv = 0 => r <= 1)
          /\ progress = [EasinessFactor |-> ef, Interval |-> iv, Repetitions |-> r,
                         LastQuality |-> 0, ConsecutiveRight |-> c,
                         LastReviewDate |-> StoredDate(revision, 0),
                         NextReviewDate |-> StoredDate(revision, iv)]
    /\ before = progress
    /\ op = "init"
    /\ quality = 0
    /\ computed = NoResult
    /\ steps = 0
    /\ IdleDue
    /\ IdleBot
    /\ IdleSched
    /\ IdleLadder
    /\ IdleShow

ProcessCall ==
    /\ revision = "sm2.go"
    /\ steps < MaxSteps
    /\ \E q \in Qualities :
          /\ progress' = Process(NewSM2, progress, q, now)
          /\ quality' = q
    /\ before' = progress
    /\ op' = "Process"
    /\ steps' = steps + 1
    /\ UNCHANGED <<computed, now, revision>>
    /\ UNCHANGED otherThanSM

Process011Call ==
    /\ revision = "part_011"
    /\ steps < MaxSteps
    /\ \E q \in Qualities :
          /\ progress' = Process011(NewSM2_011, progress, q, now)
          /\ quality' = q
    /\ before' = progress
    /\ op' = "Process011"
    /\ steps' = steps + 1
    /\ UNCHANGED <<computed, now, revision>>
    /\ UNCHANGED otherThanSM

\* Process called with a quality outside 0..5: no check is made
ProcessOutOfRangeCall ==
    /\ revision = "sm2.go"
    /\ steps < MaxSteps
    /\ \E q \in OutOfRangeQualities :
          /\ progress' = Process(NewSM2, progress, q, now)
          /\ quality' = q
    /\ before' = progress
    /\ op' = "ProcessOutOfRange"
    /\ steps' = steps + 1
    /\ UNCHANGED <<computed, now, revision>>
    /\ UNCHANGED otherThanSM

Process011OutOfRangeCall ==
    /\ revision = "part_011"
    /\ steps < MaxSteps
    /\ \E q \in OutOfRangeQualities :
          /\ progress' = Process011(NewSM2_011, progress, q, now)
          /\ quality' = q
    /\ before' = progress
    /\ op' = "Process011OutOfRange"
    /\ steps' = steps + 1
    /\ UNCHANGED <<computed, now, revision>>
    /\ UNCHANGED otherThanSM

ComputeNextIntervalCall ==
    /\ revision = "sm2.go"
    /\ steps < MaxSteps
    /\ \E q \in Qualities :
          /\ computed' = ComputeNextInterval(NewSM2, q, progress.Repetitions,
                                             progress.EasinessFactor, progress.Interval)
          /\ quality' = q
    /\ before' = progress
    /\ op' = "ComputeNextInterval"
    /\ steps' = steps + 1
    /\ UNCHANGED <<progress, now, revision>>
    /\ UNCHANGED otherThanSM

Tick ==
    /\ now < MaxDay
    /\ now' = now + 1
    /\ UNCHANGED <<progress, before, op, quality, computed, steps, revision>>
    /\ UNCHANGED otherThanSM

NextSM2 ==
    \/ ProcessCall
    \/ Process011Call
    \/ ProcessOutOfRangeCall
    \/ Process011OutOfRangeCall
    \/ ComputeNextIntervalCall
    \/ Tick

SpecSM2 == InitSM2 /\ [][NextSM2]_vars

(***************************************************************************)
(* Properties of the update functions                                      *)
(***************************************************************************)
Updated == op \in {"Process", "Process011"}
Failed == quality < 3
Passed == quality >= 3

\* C1: after any call of Process with a quality in 0..5 the stored interval
\* is at least 1, also on the first-ever pass of a new item.
C1_IntervalAtLeastOne ==
    Updated => progress.Interval >= 1

\* C3: a failing review (q < 3) yields interval 1 and consecutiveCorrect 0
\* whatever the prior state was, in every update function.
C3_FailureResets ==
    /\ (Updated /\ Failed) =>
          (progress.Interval = 1 /\ progress.ConsecutiveRight = 0)
    /\ (op = "ComputeNextInterval" /\ Failed) => computed.newInterval = 1

C3_Witness ==
    /\ op = "Process"
    /\ Failed
    /\ before.Interval > 1
    /\ before.ConsecutiveRight > 0
    /\ progress.Interval = 1

\* C4: a failing review leaves repetitionCount as it was, in every update
\* function of the adaptive strategy.
C4_FailureKeepsRepetitions ==
    /\ (Updated /\ Failed) => progress.Repetitions = before.Repetitions
    /\ (op = "ComputeNextInterval" /\ Failed) =>
          computed.newRepetitions = before.Repetitions

\* C5: a first-ever pass (repetitionCount 0, q >= 3) yields the first entry
\* of the initial-interval ladder as the new interval.
C5_FirstPassInterval ==
    (before.Repetitions = 0 /\ Passed) =>
        /\ op = "Process" => progress.Interval = At(NewSM2.InitialIntervals, 0)
        /\ op = "Process011" => progress.Interval = At(NewSM2_011.InitialIntervals, 0)
        /\ op = "ComputeNextInterval" =>
              computed.newInterval = At(NewSM2.InitialIntervals, 0)

\* C6: the updated easiness is at least 1.3 for every quality 0..5 and every
\* prior easiness, and it does not decrease when the quality increases.
C6_EasinessFloorAndMonotone ==
    /\ Updated => progress.EasinessFactor >= 130
    /\ op = "ComputeNextInterval" => computed.newEF >= 130
    /\ op = "Process" =>
          \A q \in Qualities : q <= quality =>
              Process(NewSM2, before, q, now).EasinessFactor
                  <= progress.EasinessFactor
    /\ op = "Process011" =>
          \A q \in Qualities : q <= quality =>
              Process011(NewSM2_011, before, q, now).EasinessFactor
                  <= progress.EasinessFactor
    /\ op = "ComputeNextInterval" =>
          \A q \in Qualities : q <= quality =>
              ComputeNextInterval(NewSM2, q, before.Repetitions,
                                  before.EasinessFactor, before.Interval).newEF
                  <= computed.newEF

\* the clamp was needed: the unclamped value lies below 1.3
C6_Witness ==
    /\ op = "Process"
    /\ before.EasinessFactor + (10 - (5 - quality) * (8 + (5 - quality) * 2)) < 130
    /\ progress.EasinessFactor = 130
    /\ steps = 2

\* C12: a quality outside 0..5 is rejected and leaves the review state as it
\* was: easiness, interval, repetitions, consecutive-right count, last
\* quality, last review date and next review date keep their values.
C12_InvalidQualityRejected ==
    op \in {"ProcessOutOfRange", "Process011OutOfRange"} => progress = before

(***************************************************************************)
(* Selection of the words due for review                                   *)
(***************************************************************************)
\* the orders in which n elements can be arranged
Arrangements(n) ==
    {f \in [1..n -> 1..n] : \A i, j \in 1..n : i # j => f[i] # f[j]}

Truncate(s, n) == IF Len(s) > n THEN SubSeq(s, 1, n) ELSE s

\* the comparison function handed to sort.Slice in sm2.go
Less(pi, pj) ==
    LET di == ParseRFC3339(pi.NextReviewDate)
        dj == ParseRFC3339(pj.NextReviewDate)
    IN IF pi.Repetitions = 0 /\ pj.Repetitions > 0 THEN TRUE
       ELSE IF pj.Repetitions = 0 /\ pi.Repetitions > 0 THEN FALSE
       ELSE IF pi.EasinessFactor < pj.EasinessFactor THEN TRUE
       ELSE IF pi.EasinessFactor > pj.EasinessFactor THEN FALSE
       ELSE IF ~di.err /\ ~dj.err THEN di.t < dj.t
       ELSE IF di.err THEN FALSE
       ELSE TRUE

\* the outcomes of sort.Slice(dueProgress, less): elements that compare equal
\* come in an unspecified order
SortSlice(s) ==
    {[i \in 1..Len(s) |-> s[f[i]]] : f \in
        {g \in Arrangements(Len(s)) : \A i, j \in 1..Len(s) :
            i < j => ~Less(s[g[j]], s[g[i]])}}

\* the due filter of sm2.go: a date that does not parse counts as due
IsDue(p, t) ==
    LET d == ParseRFC3339(p.NextReviewDate)
    IN d.err \/ ~(d.t > t)

\* the due filter of the earlier revision, on time.Time values
IsDue011(p, t) == ~(p.NextReviewDate > t)

\* SM2.GetNextWords, sm2.go: the possible results
GetNextWords(up, lim, t) ==
    LET dueProgress == SelectSeq(up, LAMBDA p : IsDue(p, t))
    IN {Truncate(sorted, lim) : sorted \in SortSlice(dueProgress)}

\* SM2.GetNextWords, earlier revision: no sorting
GetNextWords011(up, lim, t) ==
    LET dueProgress == SelectSeq(up, LAMBDA p : IsDue011(p, t))
    IN Truncate(dueProgress, lim)

\* ORDER BY next_review_date ASC: rows with equal dates come in an
\* unspecified order
OrderByNextReviewDate(s) ==
    {[i \in 1..Len(s) |-> s[f[i]]] : f \in
        {g \in Arrangements(Len(s)) : \A i, j \in 1..Len(s) :
            i < j => s[g[i]].NextReviewDate <= s[g[j]].NextReviewDate}}

\* UserProgressRepository.GetDueWordsForUser: the possible results
GetDueWordsForUser(rows, t) ==
    OrderByNextReviewDate(SelectSeq(rows, LAMBDA p : p.NextReviewDate <= t))

\* the loop of Bot.handleLearnCommand over the due records: append, then
\* stop once WordsPerDay words are collected
RECURSIVE WordsToLearn(_, _, _)
WordsToLearn(dueProgress, wordsPerDay, acc) ==
    IF dueProgress = << >> THEN acc
    ELSE LET grown == Append(acc, Head(dueProgress))
         IN IF Len(grown) >= wordsPerDay THEN grown
            ELSE WordsToLearn(Tail(dueProgress), wordsPerDay, grown)

(***************************************************************************)
(* The selections applied to bounded inputs                                *)
(***************************************************************************)
DueEF == {130, 250}
DueRepetitions == {0, 2}
\* dates a record can carry: written by Process (RFC3339), or in the layout
\* of the column default CURRENT_TIMESTAMP, which time.RFC3339 does not parse
DueDates(rev) ==
    IF rev = "sm2.go"
    THEN {FormatRFC3339(d) : d \in 0..2} \cup {[layout |-> "SQL", day |-> 2]}
    ELSE 0..2

DueRecords(rev) ==
    [EasinessFactor : DueEF, Repetitions : DueRepetitions,
     NextReviewDate : DueDates(rev)]

\* the update functions are not running
IdleSM2 ==
    /\ progress = [EasinessFactor |-> 250, Interval |-> 0, Repetitions |-> 0,
                   LastQuality |-> 0, ConsecutiveRight |-> 0,
                   LastReviewDate |-> StoredDate(revision, 0),
                   NextReviewDate |-> StoredDate(revision, 0)]
    /\ before = progress
    /\ op = "init"
    /\ quality = 0
    /\ computed = NoResult
    /\ steps = 0

InitDue ==
    /\ revision \in {"sm2.go", "part_011"}
    /\ IdleQuality
    /\ IdleCron
    /\ IdleSession
    /\ now \in 0..MaxDay
    /\ IdleSM2
    /\ \E n \in 0..MaxWords :
          \E recs \in [1..n -> DueRecords(revision)] :
              userProgress = [i \in 1..n |->
                  [WordID |-> i,
                   EasinessFactor |-> recs[i].EasinessFactor,
                   Repetitions |-> recs[i].Repetitions,
                   NextReviewDate |-> recs[i].NextReviewDate]]
    /\ limit \in 0..MaxLimit
    /\ result = << >>
    /\ selOp = "init"
    /\ IdleBot
    /\ IdleSched
    /\ IdleLadder
    /\ IdleShow

GetNextWordsCall ==
    /\ revision = "sm2.go"
    /\ selOp = "init"
    /\ result' \in GetNextWords(userProgress, limit, now)
    /\ selOp' = "GetNextWords"
    /\ UNCHANGED <<userProgress, limit, now, revision>>
    /\ UNCHANGED otherThanDue

GetNextWords011Call ==
    /\ revision = "part_011"
    /\ selOp = "init"
    /\ result' = GetNextWords011(userProgress, limit, now)
    /\ selOp' = "GetNextWords011"
    /\ UNCHANGED <<userProgress, limit, now, revision>>
    /\ UNCHANGED otherThanDue

GetDueWordsForUserCall ==
    /\ revision = "part_011"
    /\ selOp = "init"
    /\ result' \in GetDueWordsForUser(userProgress, now)
    /\ selOp' = "GetDueWordsForUser"
    /\ UNCHANGED <<userProgress, limit, now, revision>>
    /\ UNCHANGED otherThanDue

\* Bot.handleLearnCommand up to the start of the session: the words shown
handleLearnCommand ==
    /\ revision = "part_011"
    /\ selOp = "init"
    /\ limit >= 1
    /\ \E dueProgress \in GetDueWordsForUser(userProgress, now) :
          result' = WordsToLearn(dueProgress, limit, << >>)
    /\ selOp' = "handleLearnCommand"
    /\ UNCHANGED <<userProgress, limit, now, revision>>
    /\ UNCHANGED otherThanDue

NextDue ==
    \/ handleLearnCommand
    \/ GetDueWordsForUserCall
    \/ GetNextWordsCall
    \/ GetNextWords011Call

SpecDue == InitDue /\ [][NextDue]_vars

(***************************************************************************)
(* Properties of the selection                                             *)
(***************************************************************************)
\* the day a stored next-review date denotes
DueDay(d) == IF revision = "sm2.go" THEN d.day ELSE d

NeverReviewed(p) == p.Repetitions = 0

\* a comes strictly before b in the priority order: never reviewed first,
\* then lower easiness, then earlier next-review date
Precedes(a, b) ==
    \/ NeverReviewed(a) /\ ~NeverReviewed(b)
    \/ /\ NeverReviewed(a) = NeverReviewed(b)
       /\ \/ a.EasinessFactor < b.EasinessFactor
          \/ /\ a.EasinessFactor = b.EasinessFactor
             /\ DueDay(a.NextReviewDate) < DueDay(b.NextReviewDate)

PriorityOrdered(s) ==
    \A i, j \in 1..Len(s) : i < j => ~Precedes(s[j], s[i])

\* the records the selection takes to be due
DueSet ==
    {userProgress[i] : i \in {k \in 1..Len(userProgress) :
        IF revision = "sm2.go" THEN IsDue(userProgress[k], now)
        ELSE userProgress[k].NextReviewDate <= now}}

Elems(s) == {s[i] : i \in 1..Len(s)}

\* C7: a selection of due words never returns a record whose next-review
\* date is later than now, whatever the input, unparseable dates included.
C7_NeverReturnsFuture ==
    selOp \in {"GetNextWords", "GetNextWords011", "GetDueWordsForUser"} =>
        \A i \in 1..Len(result) : DueDay(result[i].NextReviewDate) <= now

\* C8: the returned sequence is in priority order: never-reviewed records
\* first, then lower easiness first, then earlier next-review date first.
C8_PriorityOrder ==
    selOp \in {"GetNextWords", "GetNextWords011"} => PriorityOrdered(result)

\* C9: the result is the first limit elements of the priority-ordered due
\* sequence (all of it when it is not longer than the limit), so the words
\* given to a learner are the highest-priority due ones.
C9_TruncationAfterOrdering ==
    selOp \in {"GetNextWords", "GetNextWords011", "handleLearnCommand"} =>
        /\ Elems(result) \subseteq DueSet
        /\ Len(result) =
              IF Cardinality(DueSet) > limit THEN limit ELSE Cardinality(DueSet)
        /\ PriorityOrdered(result)
        /\ \A r \in DueSet \ Elems(result) :
              \A x \in Elems(result) : ~Precedes(r, x)

(***************************************************************************)
(* The bot: Start runs every update in a goroutine of its own              *)
(* (go b.handleUpdate(update)); a quality callback ends in                 *)
(* handleQualityResponse, which reads the progress row, applies Process    *)
(* and writes the row back.                                                *)
(***************************************************************************)
Handlers == 1..MaxHandlers
Words == {1, 2}
BotQualities == {1, 4, 5}

NoRow == [ID |-> 0]

\* the record handleQualityResponse builds when GetByUserAndWord fails
NewProgress(w, q, t) ==
    [ID |-> 0, WordID |-> w, EasinessFactor |-> 250, Interval |-> 0,
     Repetitions |-> 0, LastQuality |-> q, ConsecutiveRight |-> 0,
     LastReviewDate |-> t, NextReviewDate |-> t]

\* a row some earlier session has written
ReviewedRow(w) ==
    [ID |-> w, WordID |-> w, EasinessFactor |-> 250, Interval |-> 1,
     Repetitions |-> 1, LastQuality |-> 4, ConsecutiveRight |-> 1,
     LastReviewDate |-> 0, NextReviewDate |-> 1]

\* UserProgressRepository.GetByUserAndWord, with the fallback of the handler
GetByUserAndWord(w, q, t) ==
    IF store[w].ID = 0 THEN NewProgress(w, q, t) ELSE store[w]

\* lines 835-846 of handleQualityResponse: the handler adjusts
\* ConsecutiveRight itself and then calls Process
UpdateProgress(p, q, t) ==
    Process011(NewSM2_011,
               [p EXCEPT !.ConsecutiveRight = IF q >= 3 THEN @ + 1 ELSE 0],
               q, t)

InitBot ==
    /\ revision = "part_011"
    /\ IdleQuality
    /\ IdleCron
    /\ IdleSession
    /\ now = 0
    /\ IdleSM2
    /\ IdleDue
    /\ store \in [Words -> {NoRow}] \cup {[w \in Words |-> ReviewedRow(w)]}
    /\ store0 = store
    /\ pc = [g \in Handlers |-> "idle"]
    /\ args = [g \in Handlers |-> [word |-> 1, quality |-> 0]]
    /\ local = [g \in Handlers |-> NoRow]
    /\ err = [g \in Handlers |-> FALSE]
    /\ IdleSched
    /\ IdleLadder
    /\ IdleShow

\* Bot.Start hands a quality_<word>_<quality> callback to a new goroutine
handleUpdate(g) ==
    /\ pc[g] = "idle"
    /\ \E w \in Words, q \in BotQualities :
          args' = [args EXCEPT ![g] = [word |-> w, quality |-> q]]
    /\ pc' = [pc EXCEPT ![g] = "read"]
    /\ UNCHANGED <<store, store0, local, err, now>>
    /\ UNCHANGED otherThanBot

\* handleQualityResponse, lines 818-846: read the row, update the copy
ReadProgress(g) ==
    /\ pc[g] = "read"
    /\ local' = [local EXCEPT ![g] =
          UpdateProgress(GetByUserAndWord(args[g].word, args[g].quality, now),
                         args[g].quality, now)]
    /\ pc' = [pc EXCEPT ![g] = "write"]
    /\ UNCHANGED <<store, store0, args, err, now>>
    /\ UNCHANGED otherThanBot

\* handleQualityResponse, lines 848-857: Create when the copy has no ID
\* (the insert fails on UNIQUE(user_id, word_id) when a row exists by now),
\* Update ... WHERE id otherwise; an error is only logged
WriteProgress(g) ==
    /\ pc[g] = "write"
    /\ LET w == args[g].word
       IN IF local[g].ID = 0
          THEN IF store[w].ID = 0
               THEN /\ store' = [store EXCEPT ![w] = [local[g] EXCEPT !.ID = w]]
                    /\ UNCHANGED err
               ELSE /\ err' = [err EXCEPT ![g] = TRUE]
                    /\ UNCHANGED store
          ELSE /\ store' = [store EXCEPT ![w] = local[g]]
               /\ UNCHANGED err
    /\ pc' = [pc EXCEPT ![g] = "done"]
    /\ UNCHANGED <<store0, args, local, now>>
    /\ UNCHANGED otherThanBot

BotTick ==
    /\ now < MaxDay
    /\ now' = now + 1
    /\ UNCHANGED botVars
    /\ UNCHANGED otherThanBot

NextBot ==
    \/ \E g \in Handlers : handleUpdate(g)
    \/ \E g \in Handlers : ReadProgress(g)
    \/ \E g \in Handlers : WriteProgress(g)
    \/ BotTick

SpecBot == InitBot /\ [][NextBot]_vars

(***************************************************************************)
(* Properties of the handler                                               *)
(***************************************************************************)
\* the fields of a row that do not depend on the time of the update
Core(r) ==
    [EasinessFactor |-> r.EasinessFactor, Interval |-> r.Interval,
     Repetitions |-> r.Repetitions, LastQuality |-> r.LastQuality,
     ConsecutiveRight |-> r.ConsecutiveRight]

HandlersOf(w) == {g \in Handlers : args[g].word = w}

\* the row after the handlers in order have run one after the other
RECURSIVE OneAfterTheOther(_, _)
OneAfterTheOther(row, order) ==
    IF order = << >> THEN row
    ELSE OneAfterTheOther(
             UpdateProgress(IF row.ID = 0
                            THEN NewProgress(args[Head(order)].word,
                                             args[Head(order)].quality, 0)
                            ELSE row,
                            args[Head(order)].quality, 0),
             Tail(order))

Orders(S) ==
    {o \in [1..Cardinality(S) -> S] :
        \A i, j \in 1..Cardinality(S) : i # j => o[i] # o[j]}

\* C2: grading events for the same (learner, item) handled concurrently
\* never lose an update: the stored row is the result of applying them one
\* after the other, or one of the callers got an error.
C2_NoLostUpdate ==
    (\A g \in Handlers : pc[g] = "done") =>
        \A w \in Words :
            Cardinality(HandlersOf(w)) >= 2 =>
                \/ \E g \in HandlersOf(w) : err[g]
                \/ Core(store[w]) \in
                      {Core(OneAfterTheOther(store0[w], o)) : o \in Orders(HandlersOf(w))}

(***************************************************************************)
(* The reminder scheduler.  Three revisions of checkAndSendReminders       *)
(* exist: "window" (word reminders inside the notification hours),         *)
(* "hourly" (word reminders, no window) and "ladder" (topic repetitions).  *)
(* "check" is Bot.CheckDueRepetitions, the same loop run by the bot, which *)
(* sends one message listing every due repetition of the user.             *)
(***************************************************************************)
DefaultNotificationStartHour == 4
DefaultNotificationEndHour == 18

Learners == 1..MaxLearners
\* notification_hour of a user, and the hours at which a tick is observed
LearnerHours == {4, 19}
TickHours == {3, 4, 19}
\* number of due words (GetDueWordsForUser) or due repetitions
\* (GetDueRepetitions) of a user at the time of the tick
DueCounts == {0, 1, 3}
WordsPerDayValues == {1, 2}

LearnerRecords ==
    [NotificationEnabled : BOOLEAN, NotificationHour : LearnerHours,
     WordsPerDay : WordsPerDayValues, due : DueCounts]

\* users.telegram_id of the user with users.id = u
TelegramID(u) == 100 + u

\* values of the two environment variables
EnvStartHours == {-1, 24}
EnvEndHours == {-1, 19}

\* the notification hours: the defaults, unless the environment gives an
\* hour in 0..23
startHour ==
    IF env.NOTIFICATION_START_HOUR >= 0 /\ env.NOTIFICATION_START_HOUR <= 23
    THEN env.NOTIFICATION_START_HOUR
    ELSE DefaultNotificationStartHour

endHour ==
    IF env.NOTIFICATION_END_HOUR >= 0 /\ env.NOTIFICATION_END_HOUR <= 23
    THEN env.NOTIFICATION_END_HOUR
    ELSE DefaultNotificationEndHour

\* a plausible slip: the end of the notification hours is not checked
OutsideWindowNoEnd(h) == h < startHour

\* the hour lies outside the notification hours (window revision only)
OutsideWindow(h) == h < startHour \/ h > endHour

\* UserRepository.GetUsersForNotification(hour), in id order
RECURSIVE UsersFrom(_, _)
UsersFrom(u, h) ==
    IF u > MaxLearners THEN << >>
    ELSE IF learners[u].NotificationEnabled /\ learners[u].NotificationHour = h
         THEN <<u>> \o UsersFrom(u + 1, h)
         ELSE UsersFrom(u + 1, h)

GetUsersForNotification(h) == UsersFrom(1, h)

\* the count handed to SendReminders by the word schedulers
CappedCount(n, wordsPerDay) == IF n > wordsPerDay THEN wordsPerDay ELSE n

\* the SendReminders call a revision makes for user u
ReminderFor(u, ok) ==
    IF variant \in {"ladder", "check"}
    THEN [to |-> TelegramID(u), count |-> learners[u].due, ok |-> ok]
    ELSE [to |-> u, count |-> CappedCount(learners[u].due, learners[u].WordsPerDay),
          ok |-> ok]

InitSched ==
    /\ revision = "sm2.go"
    /\ IdleQuality
    /\ IdleCron
    /\ IdleSession
    /\ now = 0
    /\ IdleSM2
    /\ IdleDue
    /\ IdleBot
    /\ IdleLadder
    /\ IdleShow
    /\ learners \in [Learners -> LearnerRecords]
    /\ manualCheck = NoCheck
    /\ \E s \in EnvStartHours, e \in EnvEndHours :
          env = [NOTIFICATION_START_HOUR |-> s, NOTIFICATION_END_HOUR |-> e]
    /\ variant \in {"window", "hourly", "ladder", "check"}
    /\ hour = 0
    /\ tickPc = "idle"
    /\ queue = << >>
    /\ delivered = << >>
    /\ storeFailed = {}
    /\ ticks = 0

\* checkAndSendReminders up to the loop: the hour is read, the window is
\* checked (window revision) and the users of the hour are fetched
StartTick ==
    /\ \/ tickPc \in {"idle", "done"}
       \* only the ladder revision recovers from a panic and runs again
       \/ tickPc = "panicked" /\ variant = "ladder"
    /\ ticks < MaxTicks
    /\ ticks' = ticks + 1
    /\ delivered' = << >>
    /\ storeFailed' = {}
    /\ \E h \in TickHours :
          /\ hour' = h
          /\ queue' = IF variant = "window" /\ OutsideWindow(h)
                      THEN << >>
                      ELSE GetUsersForNotification(h)
    /\ tickPc' = IF queue' = << >> THEN "done" ELSE "loop"
    /\ UNCHANGED <<learners, manualCheck, env, variant, now, revision>>
    /\ UNCHANGED otherThanSched

\* GetUsersForNotification returns an error: the tick ends at once
UsersQueryFails ==
    /\ tickPc \in {"idle", "done"}
    /\ ticks < MaxTicks
    /\ ticks' = ticks + 1
    /\ delivered' = << >>
    /\ storeFailed' = Learners
    /\ \E h \in TickHours : hour' = h
    /\ queue' = << >>
    /\ tickPc' = "done"
    /\ UNCHANGED <<learners, manualCheck, env, variant, now, revision>>
    /\ UNCHANGED otherThanSched

\* one pass of the loop body: the due query succeeds and, when the count is
\* not zero, SendReminders is called and returns nil or an error
ProcessUser ==
    /\ tickPc = "loop"
    /\ LET u == Head(queue)
       IN /\ IF learners[u].due > 0
             THEN \E ok \in BOOLEAN :
                      delivered' = Append(delivered, ReminderFor(u, ok))
             ELSE UNCHANGED delivered
          /\ queue' = Tail(queue)
    /\ tickPc' = IF queue' = << >> THEN "done" ELSE "loop"
    /\ UNCHANGED <<learners, manualCheck, env, variant, hour, storeFailed, ticks, now, revision>>
    /\ UNCHANGED otherThanSched

\* one pass of the loop body: SendReminders (sendMessage) panics.  The
\* ladder revision recovers in a defer of checkAndSendReminders, the others
\* do not recover at all: in each the loop is left and the users still in
\* the queue are not looked at
NotifierPanics ==
    /\ tickPc = "loop"
    /\ learners[Head(queue)].due > 0
    /\ delivered' = Append(delivered, ReminderFor(Head(queue), FALSE))
    /\ tickPc' = "panicked"
    /\ UNCHANGED <<learners, manualCheck, env, variant, hour, queue, storeFailed, ticks, now, revision>>
    /\ UNCHANGED otherThanSched

\* one pass of the loop body: a query of the store (the due words, the due
\* repetitions, the topics of the user) returns an error, continue
DueQueryFails ==
    /\ tickPc = "loop"
    /\ storeFailed' = storeFailed \cup {Head(queue)}
    /\ queue' = Tail(queue)
    /\ tickPc' = IF queue' = << >> THEN "done" ELSE "loop"
    /\ UNCHANGED <<learners, manualCheck, env, variant, hour, delivered, ticks, now, revision>>
    /\ UNCHANGED otherThanSched

NextSched ==
    \/ StartTick
    \/ UsersQueryFails
    \/ ProcessUser
    \/ NotifierPanics
    \/ DueQueryFails

SpecSched == InitSched /\ [][NextSched]_vars

\* RunManualCheck(userID), the same in the three scheduler revisions: the
\* due rows of the learner are read and, when there are any, the notifier
\* is called once with their number; a store error and the notifier's
\* error are returned
RunManualCheck ==
    /\ variant # "check"
    /\ \E userID \in Learners, fails \in {"none", "GetDueWordsForUser", "SendReminders"} :
          manualCheck' =
              IF fails = "GetDueWordsForUser"
              THEN [userID |-> userID, calls |-> << >>, failed |-> fails,
                    returned |-> TRUE]
              ELSE IF learners[userID].due > 0
              THEN [userID |-> userID,
                    calls |-> <<[to |-> userID, count |-> learners[userID].due,
                                 ok |-> fails = "none"]>>,
                    failed |-> fails, returned |-> fails # "none"]
              ELSE [userID |-> userID, calls |-> << >>, failed |-> "none",
                    returned |-> FALSE]
    /\ UNCHANGED <<learners, env, variant, hour, tickPc, queue, delivered,
                   storeFailed, ticks, now, revision>>
    /\ UNCHANGED otherThanSched

InitManual == InitSched /\ variant # "check"

NextManual == RunManualCheck

SpecManual == InitManual /\ [][NextManual]_vars

(***************************************************************************)
(* Properties of the scheduler                                             *)
(***************************************************************************)
\* the address a revision sends the reminder of user u to
Addressee(u) == IF variant \in {"ladder", "check"} THEN TelegramID(u) ELSE u

CallsTo(u) == {i \in 1..Len(delivered) : delivered[i].to = Addressee(u)}

\* u is to be reminded in a tick at hour h
Eligible(u, h) ==
    /\ learners[u].NotificationEnabled
    /\ learners[u].NotificationHour = h
    /\ variant = "window" => ~OutsideWindow(h)

MinOf(a, b) == IF a < b THEN a ELSE b

\* C10: in one tick every eligible learner with a non-zero due count gets
\* exactly one delivery call with count min(dueCount, maxPerDay), a learner
\* with no due item gets none, and nobody gets more than one, in every
\* scheduler revision.  (Learners whose store query failed are left out.)
C10_OneCappedDeliveryPerLearner ==
    /\ \A u \in Learners : Cardinality(CallsTo(u)) <= 1
    /\ tickPc = "done" =>
          \A u \in Learners :
              (Eligible(u, hour) /\ u \notin storeFailed) =>
                  IF learners[u].due > 0
                  THEN /\ Cardinality(CallsTo(u)) = 1
                       /\ \A i \in CallsTo(u) :
                             delivered[i].count =
                                 MinOf(learners[u].due, learners[u].WordsPerDay)
                  ELSE CallsTo(u) = {}

\* C11: a store error or a notifier error, a panic of the notifier included,
\* while one learner is processed does not stop the tick: when the tick is
\* over every eligible learner with due items whose own store query did not
\* fail has got its delivery call.
C11_TickContinuesAfterFailure ==
    tickPc \in {"done", "panicked"} =>
        \A u \in Learners :
            (Eligible(u, hour) /\ u \notin storeFailed /\ learners[u].due > 0) =>
                CallsTo(u) # {}

(***************************************************************************)
(* The topic repetitions: a topic is reviewed on a fixed ladder of stages. *)
(* The completion callback complete_<id> ends in handleTopicComplete,      *)
(* which marks a repetition completed and schedules the next one.          *)
(***************************************************************************)
Topics == {1, 2}

\* the stage after which handleTopicComplete schedules nothing more
LastRepetition == 7

\* the intervals in days of CalculateNextReviewDate
intervals == <<1, 2, 3, 7, 15, 25, 40>>

\* a plausible slip: the interval is looked up with the number of the new
\* repetition instead of the one just completed
CalculateNextReviewDateShifted(repetitionNumber, t) ==
    LET n == IF repetitionNumber + 1 >= Len(intervals)
             THEN Len(intervals) - 1
             ELSE repetitionNumber + 1
    IN AddDate(t, At(intervals, n))

\* RepetitionRepository.CalculateNextReviewDate, t being time.Now()
CalculateNextReviewDate(repetitionNumber, t) ==
    LET n == IF repetitionNumber >= Len(intervals)
             THEN Len(intervals) - 1
             ELSE repetitionNumber
    IN AddDate(t, At(intervals, n))

\* the ids of the rows with topic_id = topicID
RowsOfTopic(topicID) ==
    {i \in 1..Len(repetitionRows) : repetitionRows[i].TopicID = topicID}

\* ORDER BY created_at DESC over the rows with ids in S: rows created in the
\* same second come in an unspecified order
RECURSIVE CreatedAtDesc(_)
CreatedAtDesc(S) ==
    IF S = {} THEN {<< >>}
    ELSE UNION {{<<i>> \o rest : rest \in CreatedAtDesc(S \ {i})} :
                i \in {j \in S : \A k \in S :
                          repetitionRows[k].CreatedAt <= repetitionRows[j].CreatedAt}}

\* RepetitionRepository.GetByTopicID: the possible results, as row ids
GetByTopicID(topicID) == CreatedAtDesc(RowsOfTopic(topicID))

\* stages the repetition of a topic can be at when the callbacks start
InitStages == {1, 5, 6, 7}

\* NULL in column last_review_date
NoDate == -1

InitLadder ==
    /\ revision = "sm2.go"
    /\ IdleQuality
    /\ IdleCron
    /\ IdleSession
    /\ now = 0
    /\ IdleSM2
    /\ IdleDue
    /\ IdleBot
    /\ IdleSched
    /\ IdleShow
    /\ \E first \in Topics, stages \in [1..2 -> InitStages] :
          repetitionRows =
              [i \in 1..2 |->
                  [TopicID |-> IF i = 1 THEN first ELSE CHOOSE t \in Topics : t # first,
                   RepetitionNumber |-> stages[i],
                   NextReviewDate |-> 0,
                   LastReviewDate |-> NoDate,
                   Completed |-> FALSE,
                   CreatedAt |-> 0]]
    /\ stamp = 1
    /\ events = 0
    /\ lastEvent = NoEvent

\* Bot.handleTopicComplete for the callback complete_<repID>; fails names the
\* store call that returns an error, if any
handleTopicComplete ==
    /\ events < MaxEvents
    /\ events' = events + 1
    /\ \E repID \in 1..Len(repetitionRows),
          fails \in {"none", "GetByTopicID", "Update", "Create"} :
          \E found \in GetByTopicID(repID) :
              IF fails = "GetByTopicID" \/ found = << >> \/ fails = "Update"
              THEN /\ lastEvent' = [NoEvent EXCEPT !.repID = repID,
                                                   !.outcome = "error", !.at = now]
                   /\ UNCHANGED repetitionRows
              ELSE LET id == found[1]
                       rep == repetitionRows[id]
                       updated == [repetitionRows EXCEPT
                                      ![id].Completed = TRUE,
                                      ![id].LastReviewDate = now]
                       nextRep == [TopicID |-> rep.TopicID,
                                   RepetitionNumber |-> rep.RepetitionNumber + 1,
                                   NextReviewDate |->
                                       CalculateNextReviewDate(rep.RepetitionNumber, now),
                                   LastReviewDate |-> NoDate,
                                   Completed |-> FALSE,
                                   CreatedAt |-> stamp]
                       done == [repID |-> repID, outcome |-> "completed", picked |-> id,
                                number |-> rep.RepetitionNumber, created |-> 0,
                                at |-> now]
                   IN IF rep.RepetitionNumber < LastRepetition
                      THEN IF fails = "Create"
                           THEN /\ repetitionRows' = updated
                                /\ lastEvent' = [done EXCEPT !.outcome = "createFailed"]
                           ELSE /\ repetitionRows' = Append(updated, nextRep)
                                /\ lastEvent' =
                                      [done EXCEPT !.outcome = "scheduled",
                                                   !.created = Len(repetitionRows) + 1]
                      ELSE /\ repetitionRows' = updated
                           /\ lastEvent' = [done EXCEPT !.outcome = "last"]
    /\ UNCHANGED <<stamp, now>>
    /\ UNCHANGED otherThanLadder

\* a second passes, and with it perhaps midnight
LadderTick ==
    /\ stamp < MaxStamp
    /\ stamp' = stamp + 1
    /\ now' \in {now} \cup {d \in {now + 1} : d <= MaxDay}
    /\ UNCHANGED <<repetitionRows, events, lastEvent>>
    /\ UNCHANGED otherThanLadder

NextLadder ==
    \/ handleTopicComplete
    \/ LadderTick

SpecLadder == InitLadder /\ [][NextLadder]_vars

(***************************************************************************)
(* Properties of the ladder                                                *)
(***************************************************************************)
\* the last stage of the topic has been completed
Mastered(t) ==
    \E i \in RowsOfTopic(t) :
        /\ repetitionRows[i].RepetitionNumber = LastRepetition
        /\ repetitionRows[i].Completed

\* the repetitions of a topic with their due dates
Schedule(t) ==
    {<<i, repetitionRows[i].RepetitionNumber, repetitionRows[i].NextReviewDate>> :
        i \in RowsOfTopic(t)}

\* C13: Mastered is terminal: once the last stage of a topic is completed, no
\* later completion callback schedules a new repetition of the topic or sets
\* a new due date.
C13_MasteredIsTerminal ==
    [][\A t \in Topics : Mastered(t) => Schedule(t)' = Schedule(t)]_vars

\* the last callback completed a stage and scheduled the next one
Scheduled == lastEvent.outcome = "scheduled"

\* C14 as stated: a completion of stage n marks it completed, creates stage
\* n+1 and sets its due date to now + ladder[min(n+1, len-1)] days, the index
\* being the incremented repetition number.
C14_NextStageByNewNumber ==
    Scheduled =>
        /\ repetitionRows[lastEvent.picked].Completed
        /\ repetitionRows[lastEvent.created].RepetitionNumber = lastEvent.number + 1
        /\ repetitionRows[lastEvent.created].NextReviewDate =
              AddDate(lastEvent.at,
                      At(intervals, MinOf(lastEvent.number + 1, Len(intervals) - 1)))

\* C14, amended: a completion of stage n marks it completed, creates stage
\* n+1 and sets its due date to now + ladder[min(n, len-1)] days, the index
\* being the repetition number of the stage just completed.
C14_NextStageByCompletedNumber ==
    Scheduled =>
        /\ repetitionRows[lastEvent.picked].Completed
        /\ repetitionRows[lastEvent.picked].LastReviewDate = lastEvent.at
        /\ repetitionRows[lastEvent.created].RepetitionNumber = lastEvent.number + 1
        /\ ~repetitionRows[lastEvent.created].Completed
        /\ repetitionRows[lastEvent.created].TopicID =
              repetitionRows[lastEvent.picked].TopicID
        /\ repetitionRows[lastEvent.created].NextReviewDate =
              AddDate(lastEvent.at,
                      At(intervals, MinOf(lastEvent.number, Len(intervals) - 1)))

\* stage 5 completed on day 1: stage 6 is due 25 days later
C14_Witness ==
    /\ Scheduled
    /\ lastEvent.number = 5
    /\ lastEvent.at = 1
    /\ repetitionRows[lastEvent.created].RepetitionNumber = 6
    /\ repetitionRows[lastEvent.created].NextReviewDate = 26

(***************************************************************************)
(* The learning session of bot.go: showNextWordGroup displays the next     *)
(* group of words of the session and writes a progress row for each of     *)
(* them.  This revision has no quality callback.                           *)
(***************************************************************************)
\* the record showNextWordGroup builds when GetByUserAndWord fails
ShownNewProgress(w, t) ==
    [ID |-> 0, WordID |-> w, EasinessFactor |-> 250, Interval |-> 1,
     Repetitions |-> 0, LastQuality |-> 3, ConsecutiveRight |-> 0,
     LastReviewDate |-> FormatRFC3339(t),
     NextReviewDate |-> FormatRFC3339(AddDate(t, 1))]

\* a plausible slip: the next review date is computed from the interval the
\* row had before
ShownProgressStaleDate(sm2, p, t) ==
    LET reps == p.Repetitions + 1
        nextInterval ==
            IF reps < Len(sm2.InitialIntervals)
            THEN At(sm2.InitialIntervals, reps)
            ELSE IF p.Interval * 2 > sm2.MaxInterval
                 THEN sm2.MaxInterval
                 ELSE p.Interval * 2
    IN [p EXCEPT
          !.Repetitions = reps,
          !.LastReviewDate = FormatRFC3339(t),
          !.Interval = nextInterval,
          !.NextReviewDate = FormatRFC3339(AddDate(t, p.Interval))]

\* the update showNextWordGroup makes to an existing row, lines 562-585
ShownProgress(sm2, p, t) ==
    LET reps == p.Repetitions + 1
        nextInterval ==
            IF reps < Len(sm2.InitialIntervals)
            THEN At(sm2.InitialIntervals, reps)
            ELSE IF p.Interval * 2 > sm2.MaxInterval
                 THEN sm2.MaxInterval
                 ELSE p.Interval * 2
    IN [p EXCEPT
          !.Repetitions = reps,
          !.LastReviewDate = FormatRFC3339(t),
          !.Interval = nextInterval,
          !.NextReviewDate = FormatRFC3339(AddDate(t, nextInterval))]

\* the loop of showNextWordGroup over the word group, lines 539-593.  For a
\* word in failed the store write returns an error, which is only logged
RECURSIVE UpdateProgressOfGroup(_, _, _, _)
UpdateProgressOfGroup(rows, wordGroup, t, failed) ==
    IF wordGroup = << >> THEN rows
    ELSE LET w == Head(wordGroup)
             written ==
                 IF w \in failed THEN rows
                 ELSE IF rows[w].ID = 0
                      THEN [rows EXCEPT ![w] = [ShownNewProgress(w, t) EXCEPT !.ID = w]]
                      ELSE [rows EXCEPT ![w] = ShownProgress(NewSM2, rows[w], t)]
         IN UpdateProgressOfGroup(written, Tail(wordGroup), t, failed)

\* the words of a session, and the group sizes a user can have chosen
\* (0: none chosen, the default of 5 is used)
SessionWords == {<<1>>, <<1, 2>>, <<2, 1>>}
WordsPerGroupValues == {0, 1, 2}
DefaultWordsPerGroup == 5

\* a row of user_progress some earlier group display has written
ShownRows(w) ==
    {[ID |-> w, WordID |-> w, EasinessFactor |-> 250, Interval |-> iv,
      Repetitions |-> r, LastQuality |-> 3, ConsecutiveRight |-> 0,
      LastReviewDate |-> FormatRFC3339(0),
      NextReviewDate |-> FormatRFC3339(AddDate(0, iv))] :
        iv \in {1, 30, 200}, r \in {0, 7, 8}}

InitShow ==
    /\ revision = "sm2.go"
    /\ IdleQuality
    /\ IdleCron
    /\ IdleSession
    /\ now = 0
    /\ IdleSM2
    /\ IdleDue
    /\ IdleSched
    /\ IdleLadder
    /\ store \in [Words -> {NoRow}] \cup
                 {f \in [Words -> UNION {ShownRows(w) : w \in Words}] :
                     \A w \in Words : f[w].WordID = w}
    /\ store0 = store
    /\ pc = << >>
    /\ args = << >>
    /\ local = << >>
    /\ err = << >>
    /\ \E ws \in SessionWords, n \in WordsPerGroupValues :
          session = [exists |-> TRUE, Words |-> ws, CurrentIdx |-> 0,
                     WordsPerGroup |-> n]
    /\ shown = << >>

\* Bot.showNextWordGroup
showNextWordGroup ==
    /\ session.exists
    /\ LET wordsPerGroup == IF session.WordsPerGroup = 0
                            THEN DefaultWordsPerGroup
                            ELSE session.WordsPerGroup
           wordsLeft == Len(session.Words) - session.CurrentIdx
           groupSize == IF wordsLeft < wordsPerGroup THEN wordsLeft ELSE wordsPerGroup
           wordGroup == SubSeq(session.Words, session.CurrentIdx + 1,
                               session.CurrentIdx + groupSize)
       IN IF wordsLeft <= 0
          THEN /\ session' = NoSession
               /\ shown' = << >>
               /\ UNCHANGED store
          ELSE /\ session' = [session EXCEPT !.WordsPerGroup = wordsPerGroup,
                                             !.CurrentIdx = @ + groupSize]
               /\ shown' = wordGroup
               /\ \E failed \in SUBSET Elems(wordGroup) :
                      store' = UpdateProgressOfGroup(store, wordGroup, now, failed)
    /\ UNCHANGED <<store0, now>>
    /\ UNCHANGED otherThanShow

ShowTick ==
    /\ session.exists
    /\ now < MaxDay
    /\ now' = now + 1
    /\ UNCHANGED <<store, store0, session, shown>>
    /\ UNCHANGED otherThanShow

NextShow ==
    \/ showNextWordGroup
    \/ ShowTick

SpecShow == InitShow /\ [][NextShow]_vars

(***************************************************************************)
(* Every code path that writes the interval of a progress record: Process  *)
(* of both revisions and showNextWordGroup                                 *)
(***************************************************************************)
InitReview == InitSM2 \/ InitShow

\* the update functions run on the one record, the sessions on the table
NextReview ==
    \/ store = << >> /\ NextSM2
    \/ NextShow

SpecReview == InitReview /\ [][NextReview]_vars

\* the next review date of a record is its last review date plus its interval
DatesAgree(r) ==
    DueDay(r.NextReviewDate) = DueDay(r.LastReviewDate) + r.Interval

ProcessOps == {"Process", "Process011", "ProcessOutOfRange", "Process011OutOfRange"}

\* C15: after every update the next review date is the last review date plus
\* the interval, in whole days, and the last review date is the time of the
\* update; this holds for the record handed to Process and for every stored
\* row, the rows created by default included.
C15_NextDueIsLastPlusInterval ==
    /\ [](op \in ProcessOps => DatesAgree(progress))
    /\ [](\A w \in DOMAIN store : store[w].ID # 0 => DatesAgree(store[w]))
    /\ [][(steps' = steps + 1 /\ op' \in ProcessOps) =>
              DueDay(progress'.LastReviewDate) = now]_vars
    /\ [][\A w \in DOMAIN store :
              (w \in DOMAIN store' /\ store'[w] # store[w]) =>
                  DueDay(store'[w].LastReviewDate) = now]_vars

\* on day 1 showNextWordGroup has doubled the interval of a row
C15_Witness ==
    \E w \in DOMAIN store :
        /\ store0[w].ID # 0
        /\ store[w].Interval = 2 * store0[w].Interval
        /\ DueDay(store[w].LastReviewDate) = 1
        /\ DueDay(store[w].NextReviewDate) = 1 + store[w].Interval

\* the rows that were created for a word without progress and not updated
\* since
FirstRows ==
    {store[w] : w \in {v \in DOMAIN store :
        store0[v].ID = 0 /\ store[v].ID # 0 /\ store[v].Repetitions = 0}}

\* C16: for a word without a progress row no NotFound error is raised: a
\* default state with easiness 2.5, interval 0 and repetitions 0 is created
\* and persisted as the row of that word.
C16_DefaultStateCreated ==
    \A r \in FirstRows :
        /\ r.EasinessFactor = 250
        /\ r.Interval = 0
        /\ r.Repetitions = 0

C18_ManualCheckLikeTick ==
    (manualCheck.userID \in Learners /\ manualCheck.failed # "GetDueWordsForUser") =>
        LET u == manualCheck.userID IN
        IF learners[u].due > 0
        THEN /\ Len(manualCheck.calls) = 1
             /\ manualCheck.calls[1].count =
                    MinOf(learners[u].due, learners[u].WordsPerDay)
        ELSE manualCheck.calls = << >> /\ ~manualCheck.returned

\* C19: over the whole submit path, one passing submit (quality >= 3) leaves
\* ConsecutiveRight exactly one above, and Repetitions exactly one above, the
\* values of the record the handler read (or of its default record).
C19_OnePassingSubmitCountsOnce ==
    [][\A g \in Handlers :
          (pc[g] = "read" /\ pc'[g] = "write" /\ args[g].quality >= 3) =>
              LET read == GetByUserAndWord(args[g].word, args[g].quality, now)
              IN /\ local'[g].ConsecutiveRight = read.ConsecutiveRight + 1
                 /\ local'[g].Repetitions = read.Repetitions + 1]_vars

\* interval * ef rounded to the nearest whole day, ef in hundredths
RoundMul(interval, ef) == (interval * ef + 50) \div 100

\* C20: a passing update of a record with Repetitions r >= 1 stores
\* InitialIntervals[r] when r is an index of the sequence, and otherwise
\* interval * ef' rounded to the nearest day (ef' the updated easiness), in
\* both cases at most MaxInterval = 365.
C20_LadderOrRoundedProduct ==
    (op \in {"Process", "Process011"} /\ quality >= 3 /\ before.Repetitions >= 1) =>
        LET sm == IF revision = "sm2.go" THEN NewSM2 ELSE NewSM2_011
            r == before.Repetitions
        IN /\ progress.Interval <= 365
           /\ progress.Interval =
                  IF r < Len(sm.InitialIntervals)
                  THEN At(sm.InitialIntervals, r)
                  ELSE MinOf(RoundMul(before.Interval, progress.EasinessFactor), 365)

\* the scheduling fields of a progress row
ReviewFields(r) ==
    <<r.Repetitions, r.Interval, r.LastReviewDate, r.NextReviewDate>>

\* C23: showing words, with no quality or completion event, leaves
\* Repetitions, Interval, LastReviewDate and NextReviewDate of every
\* existing progress row unchanged.
C23_ShowingLeavesProgressAlone ==
    [][shown' # << >> =>
          \A w \in Words :
              store[w].ID # 0 => ReviewFields(store'[w]) = ReviewFields(store[w])]_vars

(***************************************************************************)
(* SM2.CalculateQuality, sm2.go.  The accuracy is kept in tenths, so       *)
(* int(accuracy * 5) is the whole part of accuracy * 5 / 10.               *)
(***************************************************************************)
CalculateQuality(a, t) ==
    IF a = 0 THEN 0
    ELSE LET base == (a * 5) \div 10
         IN IF base > 5 THEN 5 ELSE base

\* accuracies 0.0, 0.1, ..., 1.0 and answer times in seconds
Accuracies == 0..10
TimesSpent == {0, 1, 5, 30, 120}

InitQuality ==
    /\ revision = "sm2.go"
    /\ now = 0
    /\ IdleSM2
    /\ IdleDue
    /\ IdleBot
    /\ IdleSched
    /\ IdleLadder
    /\ IdleShow
    /\ IdleCron
    /\ IdleSession
    /\ accuracy \in Accuracies
    /\ timeSpent \in TimesSpent
    /\ baseQuality = -1

CalculateQualityCall ==
    /\ baseQuality = -1
    /\ baseQuality' = CalculateQuality(accuracy, timeSpent)
    /\ UNCHANGED <<accuracy, timeSpent>>
    /\ UNCHANGED otherThanQuality

NextQuality == CalculateQualityCall

SpecQuality == InitQuality /\ [][NextQuality]_vars

\* accuracy * 5 rounded to the nearest whole number, accuracy in tenths
RoundTimesFive(a) == (a * 5 + 5) \div 10

\* C24: for every accuracy a in [0, 1] and every answer time, the rating
\* returned is round(a * 5) clamped to 0..5, and 0 for a = 0 (so 0.5 gives
\* 3 and 0.9 gives 5).
C24_RatingIsRoundedAccuracy ==
    baseQuality # -1 =>
        baseQuality = IF accuracy = 0 THEN 0
                      ELSE IF RoundTimesFive(accuracy) > 5 THEN 5
                      ELSE RoundTimesFive(accuracy)

\* C25: for every quality 0..5, repetition count, easiness and interval,
\* ComputeNextInterval returns the interval, easiness and repetition count
\* that Process stores for the same inputs.
C25_ComputeAgreesWithProcess ==
    op = "ComputeNextInterval" =>
        LET stored == Process(NewSM2, progress, quality, now)
        IN /\ computed.newInterval = stored.Interval
           /\ computed.newEF = stored.EasinessFactor
           /\ computed.newRepetitions = stored.Repetitions

\* C26: a topic has at most one repetition that is not completed, and at
\* most one repetition of each number, whatever completion callbacks were
\* handled (the same button pressed twice included).
C26_OneOpenRepetitionPerTopic ==
    \A i, j \in 1..Len(repetitionRows) :
        (i # j /\ repetitionRows[i].TopicID = repetitionRows[j].TopicID) =>
            /\ repetitionRows[i].Completed \/ repetitionRows[j].Completed
            /\ repetitionRows[i].RepetitionNumber # repetitionRows[j].RepetitionNumber

\* the last callback marked a repetition completed
MarkedCompleted == lastEvent.outcome \in {"scheduled", "last", "createFailed"}

\* C27: the callback complete_<r> marks the repetition whose id is r as
\* completed, and no repetition with another id or of another topic.
C27_CompletesTheRepetitionNamed ==
    MarkedCompleted => lastEvent.picked = lastEvent.repID

\* C28: a completion is all-or-nothing: a topic whose ladder is not
\* exhausted always has a repetition that is not completed, so it can
\* become due again, also when the store fails while the next stage is
\* created.
C28_CompletionAllOrNothing ==
    \A t \in Topics :
        \/ \E i \in RowsOfTopic(t) : ~repetitionRows[i].Completed
        \/ \E i \in RowsOfTopic(t) :
              repetitionRows[i].RepetitionNumber >= LastRepetition

(***************************************************************************)
(* The job scheduler.  Scheduler.Start registers checkAndSendReminders as  *)
(* an hourly job, with gocron in the window and hourly revisions           *)
(* (Every(1).Hour().Do, StartAsync) and with robfig/cron in the ladder     *)
(* revision (AddFunc("0 0 * * * *"), Start), in both cases without any     *)
(* option that keeps runs apart: each firing runs the job in a goroutine   *)
(* of its own.  Stop of gocron returns when the running jobs have ended;   *)
(* Stop of robfig/cron returns at once with a context nobody waits on.     *)
(* main returns, and the process ends, once Bot.Stop has returned.         *)
(***************************************************************************)
HoursPerDay == 24

Library == IF variant = "ladder" THEN "robfig/cron" ELSE "gocron"

JobIds == 1..MaxJobs

FreeJob == [pc |-> "free", hour |-> 0, queue |-> << >>]

\* the run is inside checkAndSendReminders
Running(j) == jobs[j].pc \in {"loop", "send"}

\* hours at which the scheduler is started
StartHours == {3, 18}

\* delivery hours of the learners (any hour 0..23 can be set with /time)
CronLearnerHours == {4, 5, 19}

\* rows of table users for the scheduler
CronLearnerRecords ==
    [NotificationEnabled : BOOLEAN, NotificationHour : CronLearnerHours,
     WordsPerDay : {2}, due : {0, 3}]

\* NOTIFICATION_END_HOUR unset, or set to 19
CronEnvs ==
    {[NOTIFICATION_START_HOUR |-> -1, NOTIFICATION_END_HOUR |-> e] : e \in {-1, 19}}

InitCron ==
    /\ revision = "sm2.go"
    /\ now = 0
    /\ IdleSM2
    /\ IdleDue
    /\ IdleBot
    /\ IdleLadder
    /\ IdleShow
    /\ IdleQuality
    /\ IdleSession
    /\ learners \in [Learners -> CronLearnerRecords]
    /\ manualCheck = NoCheck
    /\ env \in CronEnvs
    /\ variant \in {"window", "hourly", "ladder"}
    /\ hour = 0
    /\ tickPc = "idle"
    /\ queue = << >>
    /\ delivered = << >>
    /\ storeFailed = {}
    /\ ticks = 0
    /\ clock \in StartHours
    /\ firings = 0
    /\ jobs = [j \in JobIds |-> FreeJob]
    /\ calls = {}
    /\ life = "running"

\* what is left of a run after the head of its queue is dealt with
NextUser(job) ==
    [job EXCEPT !.queue = Tail(@),
                !.pc = IF Tail(job.queue) = << >> THEN "done" ELSE "loop"]

\* the top of the hour: the library starts checkAndSendReminders in a new
\* goroutine, which reads the hour and the users of that hour.  At most
\* `most' firings are followed (0: they are not counted and go on day after
\* day), and at most slots runs are alive at a time; with faulty the users
\* query may return an error
Fire(most, slots, faulty) ==
    /\ life = "running"
    /\ most = 0 \/ firings < most
    /\ \E j \in 1..slots :
          /\ ~Running(j)
          /\ \A k \in 1..(j - 1) : Running(k)
          /\ \E fails \in {FALSE} \cup {b \in {TRUE} : faulty} :
                LET users == IF fails \/ (variant = "window" /\ OutsideWindow(clock))
                             THEN << >>
                             ELSE GetUsersForNotification(clock)
                IN jobs' = [jobs EXCEPT ![j] =
                               [pc |-> IF users = << >> THEN "done" ELSE "loop",
                                hour |-> clock, queue |-> users]]
    /\ firings' = IF most = 0 THEN firings ELSE firings + 1
    /\ clock' = (clock + 1) % HoursPerDay
    /\ UNCHANGED <<calls, life>>
    /\ UNCHANGED <<schedVars, now, revision>>
    /\ UNCHANGED otherThanCron

\* the due rows of the next user are read.  In the ladder revision the
\* query carries the context of Start and fails once it is cancelled
ReadDue(j, faulty) ==
    /\ life # "exited"
    /\ jobs[j].pc = "loop"
    /\ LET u == Head(jobs[j].queue)
           cancelled == variant = "ladder" /\ life # "running"
       IN \E fails \in {FALSE} \cup {b \in {TRUE} : faulty} :
              jobs' = [jobs EXCEPT ![j] =
                          IF fails \/ cancelled \/ learners[u].due = 0
                          THEN NextUser(jobs[j])
                          ELSE [jobs[j] EXCEPT !.pc = "send"]]
    /\ UNCHANGED <<clock, firings, calls, life>>
    /\ UNCHANGED <<schedVars, now, revision>>
    /\ UNCHANGED otherThanCron

\* s.notifier.SendReminders for the user whose due rows were read
Send(j, faulty) ==
    /\ life # "exited"
    /\ jobs[j].pc = "send"
    /\ LET u == Head(jobs[j].queue)
       IN \E ok \in {TRUE} \cup {b \in {FALSE} : faulty} :
              calls' = calls \cup
                  {[to |-> Addressee(u), count |-> ReminderFor(u, ok).count,
                    ok |-> ok, hour |-> jobs[j].hour]}
    /\ jobs' = [jobs EXCEPT ![j] = NextUser(jobs[j])]
    /\ UNCHANGED <<clock, firings, life>>
    /\ UNCHANGED <<schedVars, now, revision>>
    /\ UNCHANGED otherThanCron

\* Scheduler.Stop, called by Bot.Stop or on cancellation of the context
Stop ==
    /\ life = "running"
    /\ life' = IF Library = "gocron" /\ \E j \in JobIds : Running(j)
               THEN "stopping"
               ELSE "stopped"
    /\ UNCHANGED <<clock, firings, jobs, calls>>
    /\ UNCHANGED <<schedVars, now, revision>>
    /\ UNCHANGED otherThanCron

\* Stop of gocron returns when no run is left
StopReturns ==
    /\ life = "stopping"
    /\ \A j \in JobIds : ~Running(j)
    /\ life' = "stopped"
    /\ UNCHANGED <<clock, firings, jobs, calls>>
    /\ UNCHANGED <<schedVars, now, revision>>
    /\ UNCHANGED otherThanCron

\* main returns after Bot.Stop: the process ends with its goroutines
Exit ==
    /\ life = "stopped"
    /\ life' = "exited"
    /\ UNCHANGED <<clock, firings, jobs, calls>>
    /\ UNCHANGED <<schedVars, now, revision>>
    /\ UNCHANGED otherThanCron

NextCron ==
    \/ Fire(MaxFirings, MaxJobs, TRUE)
    \/ \E j \in JobIds : ReadDue(j, TRUE)
    \/ \E j \in JobIds : Send(j, TRUE)
    \/ Stop
    \/ StopReturns
    \/ Exit

SpecCron == InitCron /\ [][NextCron]_vars

\* the scheduler day after day: it fires at every hour, each run ends
\* before the next firing, nothing fails and nobody stops it
NextDay ==
    \/ Fire(0, 1, FALSE)
    \/ ReadDue(1, FALSE)
    \/ Send(1, FALSE)

SpecDay == InitCron /\ [][NextDay]_vars /\ WF_vars(NextDay)

(***************************************************************************)
(* The learning session of the earlier bot (part_013).  handleLearnCommand *)
(* stores the session and shows its first word; Bot.Start runs every       *)
(* update in a goroutine of its own, and the end of handleQualityResponse  *)
(* (lines 937-963) reads the session from the map learningSessions,        *)
(* increments CurrentIdx in its copy and writes the copy back or deletes   *)
(* the entry.  The map is used without a lock: a goroutine is at "lookup"  *)
(* while it reads the map and at "store" while it writes it.               *)
(***************************************************************************)
LearnWords == {<<1>>, <<1, 2>>, <<1, 2, 3>>}

\* handleLearnCommand, lines 536-543
InitSession ==
    /\ revision = "part_011"
    /\ now = 0
    /\ IdleSM2
    /\ IdleDue
    /\ IdleBot
    /\ IdleSched
    /\ IdleLadder
    /\ IdleShow
    /\ IdleQuality
    /\ IdleCron
    /\ sessionWords \in LearnWords
    /\ learning = [exists |-> TRUE, Words |-> sessionWords, CurrentIdx |-> 0]
    /\ cards = <<sessionWords[1]>>
    /\ sessionPc = [g \in Handlers |-> "idle"]
    /\ copy = [g \in Handlers |-> NoLearning]
    /\ responses = 0
    /\ crashed = FALSE

\* Bot.Start: go b.handleUpdate(update) for a quality callback; the
\* goroutine comes to the map read of line 938
handleQualityCallback(g) ==
    /\ ~crashed
    /\ sessionPc[g] \in {"idle", "done"}
    /\ responses < MaxResponses
    /\ responses' = responses + 1
    /\ sessionPc' = [sessionPc EXCEPT ![g] = "lookup"]
    /\ UNCHANGED <<learning, sessionWords, cards, copy, crashed>>
    /\ UNCHANGED otherThanSession

\* lines 938-946: session, exists := b.learningSessions[userID], and the
\* increment of CurrentIdx in the copy
LookupSession(g) ==
    /\ ~crashed
    /\ sessionPc[g] = "lookup"
    /\ IF learning.exists
       THEN /\ copy' = [copy EXCEPT ![g] = [learning EXCEPT !.CurrentIdx = @ + 1]]
            /\ sessionPc' = [sessionPc EXCEPT ![g] = "store"]
       ELSE /\ copy' = [copy EXCEPT ![g] = NoLearning]
            /\ sessionPc' = [sessionPc EXCEPT ![g] = "done"]
    /\ UNCHANGED <<learning, sessionWords, cards, responses, crashed>>
    /\ UNCHANGED otherThanSession

\* lines 948-962: the copy is written back and the next word shown, or the
\* entry is deleted when no word is left
StoreSession(g) ==
    /\ ~crashed
    /\ sessionPc[g] = "store"
    /\ IF copy[g].CurrentIdx < Len(copy[g].Words)
       THEN /\ learning' = copy[g]
            /\ cards' = Append(cards, copy[g].Words[copy[g].CurrentIdx + 1])
       ELSE /\ learning' = NoLearning
            /\ UNCHANGED cards
    /\ sessionPc' = [sessionPc EXCEPT ![g] = "done"]
    /\ UNCHANGED <<sessionWords, copy, responses, crashed>>
    /\ UNCHANGED otherThanSession

\* one goroutine writes the map while another reads or writes it
MapRace ==
    \E g, h \in Handlers :
        g # h /\ sessionPc[g] = "store" /\ sessionPc[h] \in {"lookup", "store"}

\* the runtime may detect the concurrent map access and end the process
\* ("fatal error: concurrent map read and map write")
ConcurrentMapAccess ==
    /\ ~crashed
    /\ MapRace
    /\ crashed' = TRUE
    /\ UNCHANGED <<learning, sessionWords, cards, sessionPc, copy, responses>>
    /\ UNCHANGED otherThanSession

NextSession ==
    \/ \E g \in Handlers : handleQualityCallback(g)
    \/ \E g \in Handlers : LookupSession(g)
    \/ \E g \in Handlers : StoreSession(g)
    \/ ConcurrentMapAccess

SpecSession == InitSession /\ [][NextSession]_vars

\* no goroutine is inside the session part of the handler
Quiet == \A g \in Handlers : sessionPc[g] \in {"idle", "done"}

\* C30: every handled quality response advances CurrentIdx by exactly one,
\* 0 <= CurrentIdx < len(Words) while the session exists, the session is
\* removed exactly after len(Words) responses, no word is skipped or shown
\* twice, and the session map is never written while it is read or written
\* by another goroutine.
C30_SessionAdvancesOncePerResponse ==
    /\ ~MapRace
    /\ ~crashed
    /\ learning.exists =>
          (learning.CurrentIdx >= 0 /\ learning.CurrentIdx < Len(learning.Words))
    /\ Len(cards) <= Len(sessionWords)
    /\ \A i \in 1..Len(cards) : cards[i] = sessionWords[i]
    /\ Quiet =>
          IF responses < Len(sessionWords)
          THEN learning.exists /\ learning.CurrentIdx = responses
          ELSE ~learning.exists

\* C21: ticks are not re-entrant: two runs of the reminder check never
\* process learners at the same time, and no learner gets two delivery
\* calls for the same scheduled hour.
C21_TicksNeverOverlap ==
    /\ \A j, k \in JobIds : j # k => ~(Running(j) /\ Running(k))
    /\ \A c, d \in calls : (c.to = d.to /\ c.hour = d.hour) => c = d

\* C22: after the shutdown signal no new tick is started, and a tick in
\* flight finishes the learner it is processing before the process ends.
C22_GracefulShutdown ==
    /\ [][life # "running" => firings' = firings]_vars
    /\ [](life = "exited" => \A j \in JobIds : jobs[j].pc # "send")

\* C29: with the scheduler firing at every hour of a day and nothing
\* failing, every learner with reminders enabled and something due gets a
\* delivery call, whatever hour 0..23 the learner has chosen.
C29_EnabledLearnerIsReminded ==
    \A u \in Learners :
        (learners[u].NotificationEnabled /\ learners[u].due > 0) =>
            <>(\E c \in calls : c.to = Addressee(u))

====
